---- MODULE Spec2Model ----
(***************************************************************************)
(* A model of src/analizador27.py: the Tokenizer, the recursive-descent    *)
(* Parser that builds the symbol table, and the schema validation          *)
(* (validate_snake, validate_tetris, validate_all).                        *)
(*                                                                         *)
(* Text is a sequence of one-character strings.  Python values carry their *)
(* runtime type as a tag: [t |-> "int", v |-> 5], [t |-> "str", v |-> "W"],*)
(* [t |-> "bool", ...], [t |-> "float", ...], [t |-> "list", v |-> <<..>>],*)
(* and [t |-> "dict", v |-> <<..>>], a dict being the sequence of its      *)
(* <<key, value>> pairs in insertion order.                                *)
(***************************************************************************)
EXTENDS Integers, Sequences, FiniteSets, TLC

VARIABLES
    source,               \* Tokenizer.source: the text, a sequence of characters
    line_no,              \* position of tokenize()'s for loop over the lines
    tokens,               \* Tokenizer.tokens, then Parser.tokens
    more,                 \* how many tokens Parser.tokens may hold beyond those parse has looked at
    current_token_index,  \* Parser.current_token_index
    symbol_table,         \* Parser.symbol_table, a dict
    stack,                \* the activations of the parse_* methods, innermost last
    ret,                  \* the value the last finished call returned
    error,                \* the exception that ended the run, if any
    results,              \* validate_all's results list
    v_idx,                \* position of validate_all's for loop over the table
    pc,                   \* "lex", "parse", "validate", "done", "error" or "crashed"
    dup_seen,             \* history: <<level, name>> of the first repeated name parse read
    resv_seen             \* history: parse took a reserved word as a block or map key

vars == <<source, line_no, tokens, more, current_token_index, symbol_table,
          stack, ret, error, results, v_idx, pc, dup_seen, resv_seen>>

---------------------------------------------------------------------------
(* Characters                                                              *)

QUOTE == "\""
BACKSLASH == "\\"
NEWLINE == "\n"
HASH == "#"

Digits == {"0", "1", "2", "3", "4", "5", "6", "7", "8", "9"}

Letters ==
    {"a", "b", "c", "d", "e", "f", "g", "h", "i", "j", "k", "l", "m",
     "n", "o", "p", "q", "r", "s", "t", "u", "v", "w", "x", "y", "z",
     "A", "B", "C", "D", "E", "F", "G", "H", "I", "J", "K", "L", "M",
     "N", "O", "P", "Q", "R", "S", "T", "U", "V", "W", "X", "Y", "Z"}

\* the regex class \w
WordChars == Letters \cup Digits \cup {"_"}

\* the alternatives of the regex group ({|}|\[|\]|=|,|:)
OperatorChars == {"{", "}", "[", "]", "=", ",", ":"}

\* what str.strip() removes
Whitespace == {" ", "\t", "\n", "\r"}

DigitValue(ch) ==
    CASE ch = "0" -> 0 [] ch = "1" -> 1 [] ch = "2" -> 2 [] ch = "3" -> 3
      [] ch = "4" -> 4 [] ch = "5" -> 5 [] ch = "6" -> 6 [] ch = "7" -> 7
      [] ch = "8" -> 8 [] ch = "9" -> 9

\* ''.join(chars)
RECURSIVE Join(_)
Join(chars) ==
    IF chars = <<>> THEN "" ELSE Head(chars) \o Join(Tail(chars))

\* s[n:]
Drop(s, n) == SubSeq(s, n + 1, Len(s))

\* s[:n]
Take(s, n) == SubSeq(s, 1, n)

\* the length of the longest prefix of s made of characters of set
SpanLen(s, set) ==
    IF \A i \in 1..Len(s) : s[i] \in set THEN Len(s)
    ELSE (CHOOSE i \in 1..Len(s) :
            s[i] \notin set /\ \A j \in 1..(i - 1) : s[j] \in set) - 1

\* the index of the first ch in s, 0 when there is none
IndexOf(s, ch) ==
    IF \A i \in 1..Len(s) : s[i] # ch THEN 0
    ELSE CHOOSE i \in 1..Len(s) : s[i] = ch /\ \A j \in 1..(i - 1) : s[j] # ch

\* str.lstrip()
LStrip(s) == Drop(s, SpanLen(s, Whitespace))

\* str.rstrip(set)
RStrip(s, set) ==
    IF \A i \in 1..Len(s) : s[i] \in set THEN <<>>
    ELSE Take(s, CHOOSE i \in 1..Len(s) :
                    s[i] \notin set /\ \A j \in (i + 1)..Len(s) : s[j] \in set)

\* str.strip()
Strip(s) == RStrip(LStrip(s), Whitespace)

\* str.splitlines() for the line boundary "\n"
RECURSIVE SplitLines(_)
SplitLines(s) ==
    IF s = <<>> THEN <<>>
    ELSE LET i == IndexOf(s, NEWLINE) IN
         IF i = 0 THEN <<s>>
         ELSE <<Take(s, i - 1)>> \o SplitLines(Drop(s, i))

---------------------------------------------------------------------------
(* Tokenizer                                                               *)

\* the for loop of _strip_inline_comments over the rest of the line
RECURSIVE strip_scan(_, _, _, _)
strip_scan(line, in_str, esc, out) ==
    IF line = <<>> THEN out
    ELSE LET ch == Head(line)
             rest == Tail(line)
         IN  IF in_str
             THEN IF esc THEN strip_scan(rest, TRUE, FALSE, Append(out, ch))
                  ELSE IF ch = BACKSLASH THEN strip_scan(rest, TRUE, TRUE, Append(out, ch))
                  ELSE IF ch = QUOTE THEN strip_scan(rest, FALSE, esc, Append(out, ch))
                  ELSE strip_scan(rest, TRUE, esc, Append(out, ch))
             ELSE IF ch = QUOTE THEN strip_scan(rest, TRUE, esc, Append(out, ch))
                  ELSE IF ch = HASH THEN out
                  ELSE strip_scan(rest, FALSE, esc, Append(out, ch))

strip_inline_comments(line) == Strip(strip_scan(line, FALSE, FALSE, <<>>))

NoGroups == [g0 |-> <<>>, g1 |-> <<>>, g2 |-> <<>>, g3 |-> <<>>]

\* One attempt of the regex  "([^"]*)"|(\d+\.?\d*)|({|}|\[|\]|=|,|:)|(\w+)
\* at the head of s: the length matched (0: no match here) and the groups.
regex_match(s) ==
    LET ch == Head(s)
        close == IndexOf(Tail(s), QUOTE)
        n1 == SpanLen(s, Digits)
        dot == IF n1 < Len(s) /\ s[n1 + 1] = "." THEN 1 ELSE 0
        n2 == SpanLen(Drop(s, n1 + dot), Digits)
        w == SpanLen(s, WordChars)
    IN  IF ch = QUOTE /\ close > 0
        THEN [len |-> close + 1, groups |-> [NoGroups EXCEPT !.g0 = SubSeq(s, 2, close)]]
        ELSE IF ch \in Digits
        THEN [len |-> n1 + dot + n2, groups |-> [NoGroups EXCEPT !.g1 = Take(s, n1 + dot + n2)]]
        ELSE IF ch \in OperatorChars
        THEN [len |-> 1, groups |-> [NoGroups EXCEPT !.g2 = <<ch>>]]
        ELSE IF ch \in WordChars
        THEN [len |-> w, groups |-> [NoGroups EXCEPT !.g3 = Take(s, w)]]
        ELSE [len |-> 0, groups |-> NoGroups]

\* re.findall: the groups of the successive leftmost matches
RECURSIVE findall(_)
findall(s) ==
    IF s = <<>> THEN <<>>
    ELSE LET m == regex_match(s) IN
         IF m.len = 0 THEN findall(Tail(s))
         ELSE <<m.groups>> \o findall(Drop(s, m.len))

\* int(text) for a string of digits
RECURSIVE int_of(_)
int_of(digits) ==
    IF digits = <<>> THEN 0
    ELSE 10 * int_of(Take(digits, Len(digits) - 1)) + DigitValue(digits[Len(digits)])

RECURSIVE StripZeros(_)
StripZeros(digits) ==
    IF digits # <<>> /\ digits[Len(digits)] = "0"
    THEN StripZeros(Take(digits, Len(digits) - 1)) ELSE digits

\* float(text) for digits '.' digits: the value as <<mantissa, decimals>>
float_of(text) ==
    LET i == IndexOf(text, ".")
        frac == StripZeros(Drop(text, i))
    IN  [t |-> "float", v |-> <<int_of(Take(text, i - 1) \o frac), Len(frac)>>]

Token(type, val) == [type |-> type, val |-> val]

\* the body of tokenize's "for group in regex_tokens"
group_tokens(group) ==
    IF group.g0 # <<>> THEN <<Token("STRING", Join(group.g0))>>
    ELSE IF group.g1 # <<>>
    THEN IF IndexOf(group.g1, ".") > 0
         THEN <<Token("NUMBER", float_of(group.g1))>>
         ELSE <<Token("NUMBER", [t |-> "int", v |-> int_of(group.g1)])>>
    ELSE IF group.g2 # <<>> THEN <<Token("OPERATOR", Join(group.g2))>>
    ELSE IF group.g3 # <<>> THEN <<Token("IDENTIFIER", Join(group.g3))>>
    ELSE <<>>

RECURSIVE groups_tokens(_)
groups_tokens(groups) ==
    IF groups = <<>> THEN <<>>
    ELSE group_tokens(Head(groups)) \o groups_tokens(Tail(groups))

\* the tokens one pass of tokenize's loop over the lines appends
line_tokens(raw) ==
    LET line == Strip(strip_inline_comments(RStrip(raw, {NEWLINE}))) IN
    IF line = <<>> THEN <<>> ELSE groups_tokens(findall(line))

---------------------------------------------------------------------------
(* Python values                                                           *)

NoneVal == [t |-> "None", v |-> ""]
IntVal(n) == [t |-> "int", v |-> n]
StrVal(s) == [t |-> "str", v |-> s]
BoolVal(b) == [t |-> "bool", v |-> b]
EmptyDict == [t |-> "dict", v |-> <<>>]
EmptyList == [t |-> "list", v |-> <<>>]

\* k in d
DictHas(d, k) == \E i \in 1..Len(d.v) : d.v[i][1] = k

\* d.get(k)
DictGet(d, k) ==
    IF DictHas(d, k)
    THEN d.v[CHOOSE i \in 1..Len(d.v) : d.v[i][1] = k][2]
    ELSE NoneVal

\* d[k] = x: a new key goes last, a present key keeps its place
DictSet(d, k, x) ==
    IF DictHas(d, k)
    THEN [d EXCEPT !.v = [i \in 1..Len(d.v) |->
                            IF d.v[i][1] = k THEN <<k, x>> ELSE d.v[i]]]
    ELSE [d EXCEPT !.v = Append(d.v, <<k, x>>)]

\* lst.append(x)
ListAppend(lst, x) == [lst EXCEPT !.v = Append(lst.v, x)]

---------------------------------------------------------------------------
(* Parser: utilities                                                       *)

NoneTok == [type |-> "None", val |-> "None"]
NoError == [cls |-> "", kind |-> "", arg |-> ""]

\* the text "%s" gives for a token's value
TokText(t) ==
    IF t.type = "NUMBER"
    THEN IF t.val.t = "int" THEN ToString(t.val.v) ELSE "float"
    ELSE t.val

\* peek_token(): the token at index i, None past the end
peek_token(i) == IF i < Len(tokens) THEN tokens[i + 1] ELSE NoneTok

\* get_token(): the index after the call; the token returned is peek_token(i)
get_token(i) == IF i < Len(tokens) THEN i + 1 ELSE i

IsOp(t, op) == t.type = "OPERATOR" /\ t.val = op

\* expect_operator(op_char) passes on token t
expect_operator_ok(t, op) == ~(t.type = "None" \/ t.type # "OPERATOR" \/ t.val # op)

\* expect_kv_sep() with ':' as the only separator
expect_kv_sep_colon_only(t) == ~(t.type = "None" \/ t.type # "OPERATOR" \/ t.val # ":")

\* expect_kv_sep() passes on token t
expect_kv_sep_ok(t) == ~(t.type = "None" \/ t.type # "OPERATOR" \/ t.val \notin {":", "="})

Frame(fn, at, acc, key, iter) ==
    [fn |-> fn, pc |-> at, acc |-> acc, key |-> key, iter |-> iter]

Top == stack[Len(stack)]
Popped == SubSeq(stack, 1, Len(stack) - 1)
SetTop(f) == [stack EXCEPT ![Len(stack)] = f]

\* the token list is known as far as parse looks: one token of lookahead
Determined == more = 0 \/ current_token_index < Len(tokens)

Running(fn, at) ==
    /\ pc = "parse"
    /\ Determined
    /\ stack # <<>>
    /\ Top.fn = fn
    /\ Top.pc = at

lexVars == <<source, line_no>>
valVars == <<results, v_idx>>
histVars == <<dup_seen, resv_seen>>

\* raise cls(...) out of parse, with the cursor left at index i
Raise(cls, kind, arg, i) ==
    /\ pc' = "error"
    /\ error' = [cls |-> cls, kind |-> kind, arg |-> arg]
    /\ current_token_index' = i
    /\ stack' = <<>>
    /\ ret' = NoneVal
    /\ UNCHANGED <<lexVars, valVars, tokens, more, symbol_table>>

\* go on inside parse with the cursor at index i
Step(i, newStack, newRet) ==
    /\ current_token_index' = i
    /\ stack' = newStack
    /\ ret' = newRet
    /\ UNCHANGED <<lexVars, valVars, tokens, more, symbol_table, error, pc>>

Reserved == {"juego", "verdadero", "falso"}

\* history: the first name read that its level already holds
NoteDup(level, d, name) ==
    dup_seen' = IF dup_seen = <<>> /\ DictHas(d, name) THEN <<level, name>> ELSE dup_seen

\* history: an identifier token that is a reserved word was stored as a key
NoteKey(key_tok) ==
    resv_seen' = (resv_seen \/ (key_tok.type = "IDENTIFIER" /\ key_tok.val \in Reserved))

---------------------------------------------------------------------------
(* Parser.parse                                                            *)

\* parse(): the head of the while loop, up to reading 'juego'
ParseLoop ==
    /\ Running("parse", "loop")
    /\ LET i == current_token_index
           ident == peek_token(i)
       IN  IF ident.type = "None"
           THEN \* return self.symbol_table; validate_all starts on it
                /\ pc' = "validate"
                /\ stack' = <<>>
                /\ ret' = symbol_table
                /\ UNCHANGED <<lexVars, valVars, tokens, more, symbol_table,
                               current_token_index, error, histVars>>
           ELSE IF ident.type # "IDENTIFIER" \/ ident.val # "juego"
           THEN Raise("SyntaxError", "expected_juego", TokText(ident), i)
                /\ UNCHANGED histVars
           ELSE Step(get_token(i), SetTop([Top EXCEPT !.pc = "name", !.iter = i]), NoneVal)
                /\ UNCHANGED histVars

\* parse(): name_tok = self.get_token() and the call of parse_block_section
ParseName ==
    /\ Running("parse", "name")
    /\ LET i == current_token_index
           name_tok == peek_token(i)
       IN  IF name_tok.type = "None" \/ name_tok.type # "STRING"
           THEN Raise("SyntaxError", "expected_game_name", "", get_token(i))
                /\ UNCHANGED histVars
           ELSE /\ Step(get_token(i),
                        Append(SetTop([Top EXCEPT !.pc = "ret", !.key = name_tok]),
                               Frame("block", "enter", EmptyDict, NoneTok, get_token(i))),
                        NoneVal)
                /\ NoteDup("entity", symbol_table, name_tok.val)
                /\ UNCHANGED resv_seen

\* the duplicate test of parse(): game_name in self.symbol_table
entity_declared(table, game_name) == DictHas(table, game_name)

\* parse(): parse_block_section has returned root_block
ParseRet ==
    /\ Running("parse", "ret")
    /\ LET game_name == Top.key.val
       IN  IF entity_declared(symbol_table, game_name)
           THEN Raise("SyntaxError", "duplicate_entity", game_name, current_token_index)
           ELSE /\ symbol_table' = DictSet(symbol_table, game_name, ret)
                /\ stack' = SetTop([Top EXCEPT !.pc = "loop"])
                /\ ret' = NoneVal
                /\ UNCHANGED <<lexVars, valVars, tokens, more, current_token_index,
                               error, pc>>
    /\ UNCHANGED histVars

---------------------------------------------------------------------------
(* Parser.parse_block_section                                              *)

\* self.expect_operator('{'); block_content = {}
BlockEnter ==
    /\ Running("block", "enter")
    /\ LET i == current_token_index
           t == peek_token(i)
       IN  IF ~expect_operator_ok(t, "{")
           THEN Raise("SyntaxError", "expected_operator", TokText(t), get_token(i))
           ELSE Step(get_token(i), SetTop([Top EXCEPT !.pc = "loop"]), NoneVal)
    /\ UNCHANGED histVars

\* the head of the while loop: '}' ends the block, an identifier is a key
BlockLoop ==
    /\ Running("block", "loop")
    /\ LET i == current_token_index
           tok == peek_token(i)
       IN  IF tok.type = "None"
           THEN Raise("SyntaxError", "missing_close_block", "", i) /\ UNCHANGED histVars
           ELSE IF IsOp(tok, "}")
           THEN Step(get_token(i), Popped, Top.acc) /\ UNCHANGED histVars
           ELSE IF tok.type # "IDENTIFIER"
           THEN Raise("SyntaxError", "expected_identifier", TokText(tok), i)
                /\ UNCHANGED histVars
           ELSE /\ Step(get_token(i),
                        SetTop([Top EXCEPT !.pc = "key", !.key = tok, !.iter = i]),
                        NoneVal)
                /\ NoteDup("block", Top.acc, tok.val)
                /\ UNCHANGED resv_seen

\* next_tok = self.peek_token(): '=' starts an assignment, '{' a section
BlockKey ==
    /\ Running("block", "key")
    /\ LET i == current_token_index
           next_tok == peek_token(i)
       IN  IF IsOp(next_tok, "=")
           THEN Step(get_token(i),
                     Append(SetTop([Top EXCEPT !.pc = "ret_value"]),
                            Frame("value", "enter", EmptyDict, NoneTok, i)),
                     NoneVal)
           ELSE IF IsOp(next_tok, "{")
           THEN Step(i,
                     Append(SetTop([Top EXCEPT !.pc = "ret_section"]),
                            Frame("block", "enter", EmptyDict, NoneTok, i)),
                     NoneVal)
           ELSE Raise("SyntaxError", "expected_eq_or_brace", Top.key.val, i)
    /\ UNCHANGED histVars

\* a block that never tests its keys
block_has_key_never(block_content, key) == FALSE

\* the duplicate test of a block: key_tok[1] in block_content
block_has_key(block_content, key) == DictHas(block_content, key)

\* parse_value has returned: the duplicate test and block_content[key] = value
BlockRetValue ==
    /\ Running("block", "ret_value")
    /\ LET key == Top.key.val
       IN  IF block_has_key(Top.acc, key)
           THEN Raise("SyntaxError", "redefined_key", key, current_token_index)
                /\ UNCHANGED histVars
           ELSE /\ Step(current_token_index,
                        SetTop([Top EXCEPT !.pc = "loop", !.acc = DictSet(Top.acc, key, ret)]),
                        NoneVal)
                /\ NoteKey(Top.key)
                /\ UNCHANGED dup_seen

\* the inner parse_block_section has returned: the test and block_content[key] = sub_block
BlockRetSection ==
    /\ Running("block", "ret_section")
    /\ LET key == Top.key.val
       IN  IF block_has_key(Top.acc, key)
           THEN Raise("SyntaxError", "redefined_section", key, current_token_index)
                /\ UNCHANGED histVars
           ELSE /\ Step(current_token_index,
                        SetTop([Top EXCEPT !.pc = "loop", !.acc = DictSet(Top.acc, key, ret)]),
                        NoneVal)
                /\ NoteKey(Top.key)
                /\ UNCHANGED dup_seen

---------------------------------------------------------------------------
(* Parser.parse_value, parse_list, parse_map                               *)

\* parse_value(): a literal is returned, '[' and '{' go on in parse_list and parse_map
ParseValue ==
    /\ Running("value", "enter")
    /\ LET i == current_token_index
           token == peek_token(i)
       IN  IF token.type = "None"
           THEN Raise("SyntaxError", "expected_value", "", i)
           ELSE IF token.type = "STRING"
           THEN Step(get_token(i), Popped, StrVal(token.val))
           ELSE IF token.type = "NUMBER"
           THEN Step(get_token(i), Popped, token.val)
           ELSE IF token.type = "IDENTIFIER" /\ token.val \in {"verdadero", "falso"}
           THEN Step(get_token(i), Popped, BoolVal(token.val = "verdadero"))
           ELSE IF IsOp(token, "[")
           THEN Step(i, SetTop(Frame("list", "enter", EmptyList, NoneTok, i)), NoneVal)
           ELSE IF IsOp(token, "{")
           THEN Step(i, SetTop(Frame("map", "enter", EmptyDict, NoneTok, i)), NoneVal)
           ELSE Raise("SyntaxError", "unexpected_value", TokText(token), i)
    /\ UNCHANGED histVars

\* parse_list(): self.expect_operator('['); lst = []
ListEnter ==
    /\ Running("list", "enter")
    /\ LET i == current_token_index
           t == peek_token(i)
       IN  IF ~expect_operator_ok(t, "[")
           THEN Raise("SyntaxError", "expected_operator", TokText(t), get_token(i))
           ELSE Step(get_token(i), SetTop([Top EXCEPT !.pc = "loop"]), NoneVal)
    /\ UNCHANGED histVars

\* the head of parse_list's while loop
ListLoop ==
    /\ Running("list", "loop")
    /\ LET i == current_token_index
           tok == peek_token(i)
       IN  IF tok.type = "None"
           THEN Raise("SyntaxError", "missing_close_list", "", i)
           ELSE IF IsOp(tok, "]")
           THEN Step(get_token(i), Popped, Top.acc)
           ELSE IF tok.type = "IDENTIFIER" /\ tok.val \notin {"verdadero", "falso"}
           THEN Raise("NameError", "identifier_in_list", tok.val, get_token(i))
           ELSE Step(i,
                     Append(SetTop([Top EXCEPT !.pc = "ret", !.iter = i]),
                            Frame("value", "enter", EmptyDict, NoneTok, i)),
                     NoneVal)
    /\ UNCHANGED histVars

\* lst.append(self.parse_value()) and the optional comma
ListRet ==
    /\ Running("list", "ret")
    /\ LET i == current_token_index
           comma == peek_token(i)
       IN  Step(IF IsOp(comma, ",") THEN get_token(i) ELSE i,
                SetTop([Top EXCEPT !.pc = "loop", !.acc = ListAppend(Top.acc, ret)]),
                NoneVal)
    /\ UNCHANGED histVars

\* parse_map(): self.expect_operator('{'); mp = {}
MapEnter ==
    /\ Running("map", "enter")
    /\ LET i == current_token_index
           t == peek_token(i)
       IN  IF ~expect_operator_ok(t, "{")
           THEN Raise("SyntaxError", "expected_operator", TokText(t), get_token(i))
           ELSE Step(get_token(i), SetTop([Top EXCEPT !.pc = "loop"]), NoneVal)
    /\ UNCHANGED histVars

\* the optional comma looked at and left in place: continue with no get_token()
skip_comma_forgotten(i) == i

\* the optional comma before a key: self.get_token(); continue
skip_comma(i) == get_token(i)

\* the head of parse_map's while loop: '}', an optional ',', or a key
MapLoop ==
    /\ Running("map", "loop")
    /\ LET i == current_token_index
           t == peek_token(i)
       IN  IF t.type = "None"
           THEN Raise("SyntaxError", "missing_close_map", "", i) /\ UNCHANGED histVars
           ELSE IF IsOp(t, "}")
           THEN Step(get_token(i), Popped, Top.acc) /\ UNCHANGED histVars
           ELSE IF IsOp(t, ",")
           THEN Step(skip_comma(i), SetTop([Top EXCEPT !.iter = i]), NoneVal)
                /\ UNCHANGED histVars
           ELSE IF t.type \notin {"IDENTIFIER", "STRING"}
           THEN Raise("SyntaxError", "invalid_map_key", TokText(t), i)
                /\ UNCHANGED histVars
           ELSE /\ Step(get_token(i),
                        SetTop([Top EXCEPT !.pc = "sep", !.key = t, !.iter = i]),
                        NoneVal)
                /\ NoteDup("map", Top.acc, t.val)
                /\ UNCHANGED resv_seen

\* self.expect_kv_sep() and the call of parse_value
MapSep ==
    /\ Running("map", "sep")
    /\ LET i == current_token_index
           t == peek_token(i)
       IN  IF ~expect_kv_sep_ok(t)
           THEN Raise("SyntaxError", "expected_kv_sep", TokText(t), get_token(i))
           ELSE Step(get_token(i),
                     Append(SetTop([Top EXCEPT !.pc = "ret"]),
                            Frame("value", "enter", EmptyDict, NoneTok, i)),
                     NoneVal)
    /\ UNCHANGED histVars

\* the duplicate test of a map: k in mp
map_has_key(mp, k) == DictHas(mp, k)

\* parse_value has returned v: the duplicate test and mp[k] = v
MapRet ==
    /\ Running("map", "ret")
    /\ LET k == Top.key.val
       IN  IF map_has_key(Top.acc, k)
           THEN Raise("SyntaxError", "duplicate_map_key", k, current_token_index)
                /\ UNCHANGED histVars
           ELSE /\ Step(current_token_index,
                        SetTop([Top EXCEPT !.pc = "loop", !.acc = DictSet(Top.acc, k, ret)]),
                        NoneVal)
                /\ NoteKey(Top.key)
                /\ UNCHANGED dup_seen

---------------------------------------------------------------------------
(* Validation                                                              *)

\* isinstance(x, (int, long)): bool is a subclass of int
isinstance_int(x) == x.t \in {"int", "bool"}

isinstance_bool(x) == x.t = "bool"

is_int_strict(x) == isinstance_int(x) /\ ~isinstance_bool(x)

is_str(x) == x.t = "str"

\* x.get(...) raises AttributeError on anything that is not a dict
has_get(x) == x.t = "dict"

\* sep.join(names)
RECURSIVE JoinWith(_, _)
JoinWith(names, sep) ==
    IF names = <<>> THEN ""
    ELSE IF Len(names) = 1 THEN names[1]
    ELSE names[1] \o sep \o JoinWith(Tail(names), sep)

\* [k for k in names if k not in cfg]
RECURSIVE missing_sections(_, _)
missing_sections(names, cfg) ==
    IF names = <<>> THEN <<>>
    ELSE (IF DictHas(cfg, Head(names)) THEN <<>> ELSE <<Head(names)>>)
         \o missing_sections(Tail(names), cfg)

Verdict(ok, msg) == [raised |-> FALSE, ok |-> ok, msg |-> msg]
AttributeError == [raised |-> TRUE, ok |-> FALSE, msg |-> "AttributeError"]

\* is_int_strict(d.get(k)) and d[k] > 0
positive_int(d, k) == is_int_strict(DictGet(d, k)) /\ DictGet(d, k).v > 0

\* the first k of keys for which con.get(k) is no string, "" when there is none
RECURSIVE first_not_str(_, _)
first_not_str(keys, con) ==
    IF keys = <<>> THEN ""
    ELSE IF ~is_str(DictGet(con, Head(keys))) THEN Head(keys)
    ELSE first_not_str(Tail(keys), con)

validate_snake(cfg) ==
    LET missing == missing_sections(<<"rejilla", "velocidad", "controles">>, cfg)
        rej == DictGet(cfg, "rejilla")
        vel == DictGet(cfg, "velocidad")
        con == DictGet(cfg, "controles")
    IN  IF missing # <<>>
        THEN Verdict(FALSE, "Snake: faltan secciones: " \o JoinWith(missing, ", "))
        ELSE IF ~has_get(rej) THEN AttributeError
        ELSE IF ~positive_int(rej, "ancho")
        THEN Verdict(FALSE, "Snake: rejilla.ancho debe ser entero > 0")
        ELSE IF ~positive_int(rej, "alto")
        THEN Verdict(FALSE, "Snake: rejilla.alto debe ser entero > 0")
        ELSE IF ~has_get(vel) THEN AttributeError
        ELSE IF ~positive_int(vel, "tick_ms")
        THEN Verdict(FALSE, "Snake: velocidad.tick_ms debe ser entero > 0")
        ELSE IF ~has_get(con) THEN AttributeError
        ELSE LET k == first_not_str(<<"arriba", "abajo", "izquierda", "derecha">>, con)
             IN  IF k # ""
                 THEN Verdict(FALSE, "Snake: controles." \o k \o " debe ser cadena")
                 ELSE Verdict(TRUE, "Snake OK")

\* the first k of keys with: k not in pl or not is_int_strict(pl[k]) or pl[k] < 0
RECURSIVE first_bad_score(_, _)
first_bad_score(keys, pl) ==
    IF keys = <<>> THEN ""
    ELSE LET k == Head(keys) IN
         IF ~DictHas(pl, k) \/ ~is_int_strict(DictGet(pl, k)) \/ DictGet(pl, k).v < 0
         THEN k
         ELSE first_bad_score(Tail(keys), pl)

\* the first opt of opts with: opt in vel and not is_int_strict(vel[opt])
RECURSIVE first_bad_option(_, _)
first_bad_option(opts, vel) ==
    IF opts = <<>> THEN ""
    ELSE IF DictHas(vel, Head(opts)) /\ ~is_int_strict(DictGet(vel, Head(opts)))
    THEN Head(opts)
    ELSE first_bad_option(Tail(opts), vel)

validate_tetris(cfg) ==
    LET missing == missing_sections(<<"rejilla", "velocidad", "puntuacion">>, cfg)
        rej == DictGet(cfg, "rejilla")
        vel == DictGet(cfg, "velocidad")
        pun == DictGet(cfg, "puntuacion")
        pl == DictGet(pun, "por_linea")
    IN  IF missing # <<>>
        THEN Verdict(FALSE, "Tetris: faltan secciones: " \o JoinWith(missing, ", "))
        ELSE IF ~has_get(rej) THEN AttributeError
        ELSE IF ~positive_int(rej, "ancho")
        THEN Verdict(FALSE, "Tetris: rejilla.ancho debe ser entero > 0")
        ELSE IF ~positive_int(rej, "alto")
        THEN Verdict(FALSE, "Tetris: rejilla.alto debe ser entero > 0")
        ELSE IF ~has_get(vel) THEN AttributeError
        ELSE IF ~positive_int(vel, "gravedad_ms")
        THEN Verdict(FALSE, "Tetris: velocidad.gravedad_ms debe ser entero > 0")
        ELSE IF ~has_get(pun) THEN AttributeError
        ELSE IF pl.t # "dict"
        THEN Verdict(FALSE, "Tetris: puntuacion.por_linea debe ser un mapa")
        ELSE LET k == first_bad_score(<<"1", "2", "3", "4">>, pl)
                 opt == first_bad_option(<<"soft_drop_ms", "lock_delay_ms">>, vel)
             IN  IF k # ""
                 THEN Verdict(FALSE, "Tetris: puntuacion.por_linea['" \o k
                                     \o "'] debe ser entero >= 0")
                 ELSE IF opt # ""
                 THEN Verdict(FALSE, "Tetris: velocidad." \o opt \o " debe ser entero")
                 ELSE Verdict(TRUE, "Tetris OK")

\* the dispatch of validate_all on the entity's name
validate_entity(game_name, cfg) ==
    IF game_name = "snake" THEN validate_snake(cfg)
    ELSE IF game_name = "tetris" THEN validate_tetris(cfg)
    ELSE Verdict(TRUE, "Juego generico (sin validador especifico)")

\* one pass of validate_all's loop over symbol_table.items()
ValidateEntity ==
    /\ pc = "validate"
    /\ v_idx < Len(symbol_table.v)
    /\ LET game_name == symbol_table.v[v_idx + 1][1]
           cfg == symbol_table.v[v_idx + 1][2]
           r == validate_entity(game_name, cfg)
       IN  IF r.raised
           THEN \* the exception leaves validate_all; nothing catches it
                /\ pc' = "crashed"
                /\ error' = [cls |-> r.msg, kind |-> "validate", arg |-> game_name]
                /\ UNCHANGED <<results, v_idx>>
           ELSE /\ results' = Append(results,
                                     [juego |-> game_name, valido |-> r.ok, mensaje |-> r.msg])
                /\ v_idx' = v_idx + 1
                /\ UNCHANGED <<pc, error>>
    /\ UNCHANGED <<lexVars, tokens, more, current_token_index, symbol_table,
                   stack, ret, histVars>>

\* return results
ValidateReturn ==
    /\ pc = "validate"
    /\ v_idx = Len(symbol_table.v)
    /\ pc' = "done"
    /\ UNCHANGED <<lexVars, valVars, tokens, more, current_token_index, symbol_table,
                   stack, ret, error, histVars>>

---------------------------------------------------------------------------
(* Tokenizer.tokenize and the construction of the Parser                   *)

\* one pass of tokenize's loop over self.source.splitlines()
TokenizeLine ==
    /\ pc = "lex"
    /\ line_no < Len(SplitLines(source))
    /\ tokens' = tokens \o line_tokens(SplitLines(source)[line_no + 1])
    /\ line_no' = line_no + 1
    /\ UNCHANGED <<source, more, current_token_index, symbol_table, stack, ret,
                   error, valVars, pc, histVars>>

ParseFrame == Frame("parse", "loop", EmptyDict, NoneTok, -1)

\* return self.tokens; then Parser(tokens).parse() is entered
TokenizeReturn ==
    /\ pc = "lex"
    /\ line_no = Len(SplitLines(source))
    /\ pc' = "parse"
    /\ current_token_index' = 0
    /\ symbol_table' = EmptyDict
    /\ stack' = <<ParseFrame>>
    /\ UNCHANGED <<lexVars, tokens, more, ret, error, valVars, histVars>>

---------------------------------------------------------------------------
(* Inputs: token lists handed to Parser(tokens)                            *)

\* how many tokens a list may hold after its given prefix
MaxTail == 5

T_juego == Token("IDENTIFIER", "juego")
T_a == Token("IDENTIFIER", "a")
T_verdadero == Token("IDENTIFIER", "verdadero")
T_str == Token("STRING", "a")
T_num == Token("NUMBER", IntVal(1))
T_op(ch) == Token("OPERATOR", ch)

TokenAlphabet ==
    {T_juego, T_a, T_verdadero, T_str, T_num} \cup {T_op(ch) : ch \in OperatorChars}

\* the lists start: at top level, after one entity, inside a block that holds
\* key a, inside a list, inside a map that holds key a
TokenPrefixes ==
    { <<>>,
      <<T_juego, T_str, T_op("{"), T_op("}")>>,
      <<T_juego, T_str, T_op("{"), T_a, T_op("="), T_num>>,
      <<T_juego, T_str, T_op("{"), T_a, T_op("="), T_op("[")>>,
      <<T_juego, T_str, T_op("{"), T_a, T_op("="), T_op("{"), T_a, T_op(":"), T_num>> }

\* The list handed to Parser(tokens) is fixed, but parse reads it left to right
\* with one token of lookahead, so the part not yet looked at is chosen as the
\* cursor reaches it: one more token, or the end of the list.
RevealToken ==
    /\ pc = "parse"
    /\ more > 0
    /\ current_token_index = Len(tokens)
    /\ \E t \in TokenAlphabet :
          /\ tokens' = Append(tokens, t)
          /\ more' = more - 1
    /\ UNCHANGED <<lexVars, current_token_index, symbol_table, stack, ret, error,
                   valVars, pc, histVars>>

RevealEnd ==
    /\ pc = "parse"
    /\ more > 0
    /\ current_token_index = Len(tokens)
    /\ more' = 0
    /\ UNCHANGED <<lexVars, tokens, current_token_index, symbol_table, stack, ret,
                   error, valVars, pc, histVars>>

---------------------------------------------------------------------------
(* Inputs: source texts                                                    *)

\* the longest text taken from SrcAlphabet
MaxSrcLen == 4

SrcAlphabet == {QUOTE, "a", "1", ".", HASH, " ", BACKSLASH, NEWLINE, "="}

RECURSIVE SeqsUpTo(_, _)
SeqsUpTo(set, n) ==
    IF n = 0 THEN {<<>>}
    ELSE LET shorter == SeqsUpTo(set, n - 1) IN
         shorter \cup {Append(s, ch) : s \in {x \in shorter : Len(x) = n - 1}, ch \in set}

SmallTexts == SeqsUpTo(SrcAlphabet, MaxSrcLen)

w_juego == <<"j", "u", "e", "g", "o">>
w_snake == <<"s", "n", "a", "k", "e">>
w_tetris == <<"t", "e", "t", "r", "i", "s">>
w_pong == <<"p", "o", "n", "g">>
w_rejilla == <<"r", "e", "j", "i", "l", "l", "a">>
w_ancho == <<"a", "n", "c", "h", "o">>
w_alto == <<"a", "l", "t", "o">>
w_velocidad == <<"v", "e", "l", "o", "c", "i", "d", "a", "d">>
w_tick_ms == <<"t", "i", "c", "k", "_", "m", "s">>
w_gravedad_ms == <<"g", "r", "a", "v", "e", "d", "a", "d", "_", "m", "s">>
w_soft_drop_ms == <<"s", "o", "f", "t", "_", "d", "r", "o", "p", "_", "m", "s">>
w_lock_delay_ms == <<"l", "o", "c", "k", "_", "d", "e", "l", "a", "y", "_", "m", "s">>
w_controles == <<"c", "o", "n", "t", "r", "o", "l", "e", "s">>
w_arriba == <<"a", "r", "r", "i", "b", "a">>
w_abajo == <<"a", "b", "a", "j", "o">>
w_izquierda == <<"i", "z", "q", "u", "i", "e", "r", "d", "a">>
w_derecha == <<"d", "e", "r", "e", "c", "h", "a">>
w_puntuacion == <<"p", "u", "n", "t", "u", "a", "c", "i", "o", "n">>
w_por_linea == <<"p", "o", "r", "_", "l", "i", "n", "e", "a">>
w_verdadero == <<"v", "e", "r", "d", "a", "d", "e", "r", "o">>
w_falso == <<"f", "a", "l", "s", "o">>
w_x == <<"x">>
w_W == <<"W">>
w_S == <<"S">>
w_A == <<"A">>
w_D == <<"D">>
w_0 == <<"0">>
w_1 == <<"1">>
w_2 == <<"2">>
w_3 == <<"3">>
w_4 == <<"4">>
w_5 == <<"5">>
w_10 == <<"1", "0">>
w_20 == <<"2", "0">>
w_100 == <<"1", "0", "0">>
w_300 == <<"3", "0", "0">>
w_500 == <<"5", "0", "0">>
w_800 == <<"8", "0", "0">>
w_1p5 == <<"1", ".", "5">>
w_comentario == <<"c", "o", "m", "e", "n", "t", "a", "r", "i", "o">>

SP == <<" ">>
LB == <<"{">>
RB == <<"}">>
LBK == <<"[">>
RBK == <<"]">>
EQ == <<"=">>
COLON == <<":">>
COMMA == <<",">>
NL == <<NEWLINE>>

RECURSIVE Cat(_)
Cat(parts) == IF parts = <<>> THEN <<>> ELSE Head(parts) \o Cat(Tail(parts))

\* one line: the words separated by single spaces
RECURSIVE Line(_)
Line(ws) ==
    IF ws = <<>> THEN <<>>
    ELSE IF Len(ws) = 1 THEN ws[1]
    ELSE ws[1] \o SP \o Line(Tail(ws))

\* the text of the lines, a line feed between one and the next
RECURSIVE Text(_)
Text(lines) ==
    IF lines = <<>> THEN <<>>
    ELSE IF Len(lines) = 1 THEN lines[1]
    ELSE lines[1] \o NL \o Text(Tail(lines))

Quoted(w) == <<QUOTE>> \o w \o <<QUOTE>>

\* the line: key = value; no line when the field is left out (value <<>>)
Assign(key, value) == IF value = <<>> THEN <<>> ELSE <<Line(<<key, EQ, value>>)>>

\* the lines of: name { body }
Section(name, body) == <<Line(<<name, LB>>)>> \o body \o <<RB>>

\* the lines of: juego "name" { body }
Entity(name, body) == <<Line(<<w_juego, Quoted(name), LB>>)>> \o body \o <<RB>>

Absent == <<>>

SnakeRejilla ==
    {Absent, Assign(w_rejilla, w_5)}
    \cup {Section(w_rejilla, Assign(w_ancho, a) \o Assign(w_alto, b)) :
            a \in {w_10, w_0, w_verdadero, Quoted(w_x), Absent},
            b \in {w_20, w_falso, Absent}}

SnakeVelocidad ==
    {Absent, Assign(w_velocidad, Quoted(w_x))}
    \cup {Section(w_velocidad, Assign(w_tick_ms, t)) :
            t \in {w_100, w_0, w_verdadero, w_1p5, Absent}}

SnakeControles ==
    {Absent, <<Line(<<w_controles, EQ, LBK, Quoted(w_W), RBK>>)>>}
    \cup {Section(w_controles,
                  Assign(w_arriba, Quoted(w_W)) \o Assign(w_abajo, b)
                  \o Assign(w_izquierda, Quoted(w_A)) \o Assign(w_derecha, d)) :
            b \in {Quoted(w_S), w_1}, d \in {Quoted(w_D), Absent}}

SnakeTexts ==
    {Text(Entity(w_snake, r \o v \o c)) :
        r \in SnakeRejilla, v \in SnakeVelocidad, c \in SnakeControles}

TetrisRejilla ==
    {Absent, Assign(w_rejilla, w_verdadero)}
    \cup {Section(w_rejilla, Assign(w_ancho, a) \o Assign(w_alto, b)) :
            a \in {w_10, w_verdadero, Absent}, b \in {w_20, w_falso}}

TetrisVelocidad ==
    {Absent, Assign(w_velocidad, w_5)}
    \cup {Section(w_velocidad,
                  Assign(w_gravedad_ms, g) \o Assign(w_soft_drop_ms, sd)
                  \o Assign(w_lock_delay_ms, ld)) :
            g \in {w_800, w_verdadero, Absent},
            sd \in {w_5, w_verdadero, Quoted(w_x), Absent},
            ld \in {w_0, w_falso, Absent}}

\* por_linea { 1:100, 2:300 3=500 "4"=800 }, the text of the spec's scenario 3
PorLineaBare ==
    <<Cat(<<w_por_linea, SP, LB, SP, w_1, COLON, w_100, COMMA, SP, w_2, COLON, w_300,
            SP, w_3, EQ, w_500, SP, Quoted(w_4), EQ, w_800, SP, RB>>)>>

\* por_linea = { "1":100, "2":300 "3"=500 "4"=800 }
PorLineaQuoted ==
    <<Cat(<<w_por_linea, SP, EQ, SP, LB, SP, Quoted(w_1), COLON, w_100, COMMA, SP,
            Quoted(w_2), COLON, w_300, SP, Quoted(w_3), EQ, w_500, SP,
            Quoted(w_4), EQ, w_800, SP, RB>>)>>

\* a map bound to por_linea, an entry on each line
PorLineaMap(entries) == <<Line(<<w_por_linea, EQ, LB>>)>> \o entries \o <<RB>>

Score(key, value) == <<Line(<<Quoted(key), COLON, value>>)>>

TetrisPuntuacion ==
    {Absent, Assign(w_puntuacion, w_1p5)}
    \cup {Section(w_puntuacion, body) :
            body \in {Absent,
                      Assign(w_por_linea, w_5),
                      PorLineaBare,
                      PorLineaQuoted,
                      PorLineaMap(Score(w_1, w_verdadero) \o Score(w_2, w_300)
                                  \o Score(w_3, w_500) \o Score(w_4, w_800)),
                      PorLineaMap(Score(w_1, w_100) \o Score(w_2, w_300)
                                  \o Score(w_3, w_500))}}

TetrisTexts ==
    {Text(Entity(w_tetris, r \o v \o p)) :
        r \in TetrisRejilla, v \in TetrisVelocidad, p \in TetrisPuntuacion}

\* three entities out of alphabetical order, with a comment
ThreeEntities ==
    Text(<<Line(Entity(w_tetris, <<>>)),
           Cat(<<Line(Entity(w_pong, Assign(w_x, w_1))), SP, <<HASH>>, SP, w_comentario>>),
           Line(Entity(w_snake, <<>>))>>)

Texts == SmallTexts \cup SnakeTexts \cup TetrisTexts \cup {ThreeEntities}

---------------------------------------------------------------------------
(* The program                                                             *)

Fresh ==
    /\ line_no = 0
    /\ current_token_index = 0
    /\ symbol_table = EmptyDict
    /\ ret = NoneVal
    /\ error = NoError
    /\ results = <<>>
    /\ v_idx = 0
    /\ dup_seen = <<>>
    /\ resv_seen = FALSE

\* Tokenizer(source_code), before tokenize()
InitText ==
    /\ source \in Texts
    /\ tokens = <<>>
    /\ more = 0
    /\ stack = <<>>
    /\ pc = "lex"
    /\ Fresh

\* Parser(tokens), as parse() is entered
InitTokens ==
    /\ source = <<>>
    /\ tokens \in TokenPrefixes
    /\ more = MaxTail
    /\ stack = <<ParseFrame>>
    /\ pc = "parse"
    /\ Fresh

Init == InitText \/ InitTokens

Next ==
    \/ TokenizeLine
    \/ TokenizeReturn
    \/ RevealToken
    \/ RevealEnd
    \/ ParseLoop
    \/ ParseName
    \/ ParseRet
    \/ BlockEnter
    \/ BlockLoop
    \/ BlockKey
    \/ BlockRetValue
    \/ BlockRetSection
    \/ ParseValue
    \/ ListEnter
    \/ ListLoop
    \/ ListRet
    \/ MapEnter
    \/ MapLoop
    \/ MapSep
    \/ MapRet
    \/ ValidateEntity
    \/ ValidateReturn

Spec == Init /\ [][Next]_vars

---------------------------------------------------------------------------
(* Properties                                                              *)

\* parse() has returned the symbol table
Returned == pc \in {"validate", "done", "crashed"}

\* validate_all is over: it returned its results or an exception left it
ValidationOver == pc \in {"done", "crashed"}

\* the run started from a source text, and tokenize() has returned
Tokenized == source # <<>> /\ pc # "lex"

EntityName(i) == symbol_table.v[i][1]
EntityBlock(i) == symbol_table.v[i][2]

\* C1: validate_all never raises and returns one record per entity of the table,
\* in declaration order, a failure being a record with valido = FALSE and a message.
C1_ValidateAllNeverRaises ==
    /\ pc # "crashed"
    /\ pc = "done" =>
          /\ Len(results) = Len(symbol_table.v)
          /\ \A i \in 1..Len(results) :
                /\ results[i].juego = EntityName(i)
                /\ results[i].mensaje # ""

\* juego "tetris" { rejilla { ancho = 10 alto = 20 } velocidad { gravedad_ms = 800 }
\*                  puntuacion { <por_linea> } }
Scenario3(por_linea) ==
    Text(Entity(w_tetris,
        Section(w_rejilla, Assign(w_ancho, w_10) \o Assign(w_alto, w_20))
        \o Section(w_velocidad, Assign(w_gravedad_ms, w_800))
        \o Section(w_puntuacion, por_linea)))

ScoreMap ==
    [t |-> "dict",
     v |-> << <<"1", IntVal(100)>>, <<"2", IntVal(300)>>,
              <<"3", IntVal(500)>>, <<"4", IntVal(800)>> >>]

TetrisOK == <<[juego |-> "tetris", valido |-> TRUE, mensaje |-> "Tetris OK"]>>

\* what scenario 3 asks of the run on text: no error, por_linea is the score map,
\* and the record of tetris is valid
Scenario3Passes(text) ==
    source = text =>
        /\ pc \notin {"error", "crashed"}
        /\ Returned =>
              DictGet(DictGet(DictGet(symbol_table, "tetris"), "puntuacion"), "por_linea")
                  = ScoreMap
        /\ pc = "done" => results = TetrisOK

Scenario3Bare == Scenario3(PorLineaBare)
Scenario3Quoted == Scenario3(PorLineaQuoted)

\* C2, as claimed: por_linea { 1:100, 2:300 3=500 "4"=800 } inside puntuacion
\* tokenizes and parses into the map "1".."4" -> 100, 300, 500, 800 and the
\* record of tetris is valido = TRUE.
C2_BareKeysParse == Scenario3Passes(Scenario3Bare)

\* C2, amended: por_linea = { "1":100, "2":300 "3"=500 "4"=800 } (an assignment,
\* every key quoted; ':' and '=' mixed, commas optional) parses into that map and
\* the record of tetris is valido = TRUE.
C2_QuotedKeysParse == Scenario3Passes(Scenario3Quoted)

C2_Witness ==
    /\ source = Scenario3Quoted
    /\ pc = "done"
    /\ results = TetrisOK

\* every dict of x, at every depth, holds each of its keys once
RECURSIVE UniqueKeys(_)
UniqueKeys(x) ==
    IF x.t = "dict"
    THEN /\ \A i, j \in 1..Len(x.v) : x.v[i][1] = x.v[j][1] => i = j
         /\ \A i \in 1..Len(x.v) : UniqueKeys(x.v[i][2])
    ELSE IF x.t = "list"
    THEN \A i \in 1..Len(x.v) : UniqueKeys(x.v[i])
    ELSE TRUE

\* C3: a table parse returns holds every entity name, block key and map key once
\* at its level, and parse never returns a table once it has read a name that its
\* level already holds (an entity name, a block key in either form, a map key).
C3_DuplicateNeverReturned ==
    Returned => (dup_seen = <<>> /\ UniqueKeys(symbol_table))

C3_Witness ==
    /\ pc = "error"
    /\ dup_seen = <<"block", "a">>
    /\ error.kind = "redefined_section"

\* the error parse raises for a repeated name of each level
DuplicateErrors(level) ==
    CASE level = "entity" -> {"duplicate_entity"}
      [] level = "block" -> {"redefined_key", "redefined_section"}
      [] level = "map" -> {"duplicate_map_key"}

\* the errors about the form of a declaration: what must follow its name is missing
FormErrors == {"expected_operator", "expected_eq_or_brace", "expected_kv_sep"}

\* C4: when parse has read a repeated name and the value or block of that name
\* follows, the error it raises is the duplicate error for that name, whatever
\* further violation the value or block holds.
C4_DuplicateReportedFirst ==
    (pc = "error" /\ dup_seen # <<>> /\ error.kind \notin FormErrors) =>
        /\ error.kind \in DuplicateErrors(dup_seen[1])
        /\ error.arg = dup_seen[2]

IsDict(cfg, section) == DictHas(cfg, section) /\ DictGet(cfg, section).t = "dict"

\* C5 (its particular case): for tetris with its three sections, rejilla.ancho,
\* rejilla.alto and velocidad.gravedad_ms valid, a present soft_drop_ms or
\* lock_delay_ms that is no strict integer is the failure the message names,
\* whatever puntuacion.por_linea holds.
C5_OptionalFieldsBeforeScores ==
    pc = "done" =>
        \A i \in 1..Len(results) :
            LET cfg == EntityBlock(i)
                rej == DictGet(cfg, "rejilla")
                vel == DictGet(cfg, "velocidad")
                opt == first_bad_option(<<"soft_drop_ms", "lock_delay_ms">>, vel)
            IN  ( /\ EntityName(i) = "tetris"
                  /\ IsDict(cfg, "rejilla") /\ IsDict(cfg, "velocidad")
                  /\ IsDict(cfg, "puntuacion")
                  /\ positive_int(rej, "ancho") /\ positive_int(rej, "alto")
                  /\ positive_int(vel, "gravedad_ms")
                  /\ opt # "" )
                => results[i].mensaje = "Tetris: velocidad." \o opt \o " debe ser entero"

\* C6: no table parse returns has an identifier-written key, in a block or in a
\* map, that is one of the reserved words juego, verdadero, falso.
C6_ReservedWordsNeverKeys == Returned => ~resv_seen

\* section.key of cfg holds verdadero or falso
BoolAt(cfg, section, key) ==
    IsDict(cfg, section) /\ DictGet(DictGet(cfg, section), key).t = "bool"

\* a field under an integer rule of the entity's rule set holds a Boolean
BooleanInIntegerField(game_name, cfg) ==
    \/ /\ game_name = "snake"
       /\ \/ BoolAt(cfg, "rejilla", "ancho")
          \/ BoolAt(cfg, "rejilla", "alto")
          \/ BoolAt(cfg, "velocidad", "tick_ms")
    \/ /\ game_name = "tetris"
       /\ \/ BoolAt(cfg, "rejilla", "ancho")
          \/ BoolAt(cfg, "rejilla", "alto")
          \/ \E k \in {"gravedad_ms", "soft_drop_ms", "lock_delay_ms"} :
                BoolAt(cfg, "velocidad", k)
          \/ /\ IsDict(cfg, "puntuacion")
             /\ DictGet(DictGet(cfg, "puntuacion"), "por_linea").t = "dict"
             /\ \E k \in {"1", "2", "3", "4"} :
                   DictGet(DictGet(DictGet(cfg, "puntuacion"), "por_linea"), k).t = "bool"

\* C7: an entity snake or tetris with a Boolean in a field under an integer rule
\* has a record, and the record has valido = FALSE, whatever its other fields hold.
C7_BooleanNeverInteger ==
    ValidationOver =>
        \A i \in 1..Len(symbol_table.v) :
            BooleanInIntegerField(EntityName(i), EntityBlock(i)) =>
                (i <= Len(results) /\ results[i].valido = FALSE)

RECURSIVE CountOf(_, _)
CountOf(s, ch) ==
    IF s = <<>> THEN 0
    ELSE (IF Head(s) = ch THEN 1 ELSE 0) + CountOf(Tail(s), ch)

RECURSIVE LastIndexOf(_, _)
LastIndexOf(s, ch) ==
    IF s = <<>> THEN 0
    ELSE IF s[Len(s)] = ch THEN Len(s)
    ELSE LastIndexOf(Take(s, Len(s) - 1), ch)

\* the line without its unterminated literal: quotes pair off from the left, and
\* an odd last one opens a literal that the line never closes
WithoutUnterminated(line) ==
    IF CountOf(line, QUOTE) % 2 = 1
    THEN Take(line, LastIndexOf(line, QUOTE) - 1)
    ELSE line

RECURSIVE TokensWithoutUnterminated(_)
TokensWithoutUnterminated(lines) ==
    IF lines = <<>> THEN <<>>
    ELSE line_tokens(WithoutUnterminated(Head(lines)))
         \o TokensWithoutUnterminated(Tail(lines))

\* C8: an unterminated string literal gives no token: the tokens of a text are
\* those of the text with every line cut at its unmatched quote.
C8_UnterminatedLiteralOmitted ==
    Tokenized => tokens = TokensWithoutUnterminated(SplitLines(source))

\* the contents of the terminated literals of s, from the left
RECURSIVE LiteralContents(_)
LiteralContents(s) ==
    LET open == IndexOf(s, QUOTE)
        close == IndexOf(Drop(s, open), QUOTE)
    IN  IF open = 0 \/ close = 0 THEN <<>>
        ELSE <<Join(SubSeq(s, open + 1, open + close - 1))>>
             \o LiteralContents(Drop(s, open + close))

RECURSIVE SourceLiterals(_)
SourceLiterals(lines) ==
    IF lines = <<>> THEN <<>>
    ELSE LiteralContents(strip_inline_comments(Head(lines)))
         \o SourceLiterals(Tail(lines))

RECURSIVE StringTokens(_)
StringTokens(toks) ==
    IF toks = <<>> THEN <<>>
    ELSE (IF Head(toks).type = "STRING" THEN <<Head(toks).val>> ELSE <<>>)
         \o StringTokens(Tail(toks))

\* C9: every terminated double-quoted literal of a line, the empty one included,
\* gives exactly one STRING token holding the text between its quotes.
C9_EveryLiteralOneStringToken ==
    Tokenized => StringTokens(tokens) = SourceLiterals(SplitLines(source))

\* every activation waiting at the head of its loop has moved the cursor since
\* the pass before began (since it was entered, for the first pass)
LoopProgress ==
    \A k \in 1..Len(stack) :
        stack[k].pc = "loop" => current_token_index > stack[k].iter

\* C10: the cursor never goes back, never passes the end of the token list, and
\* every pass of the loops of parse, parse_block_section, parse_list and
\* parse_map moves it forward by at least one token unless the pass raises.
C10_CursorAdvances ==
    [][ /\ current_token_index' >= current_token_index
        /\ current_token_index' <= Len(tokens')
        /\ LoopProgress' ]_vars

\* a pass of parse_map's loop that read nothing but an optional comma
C10_Witness ==
    /\ pc = "parse"
    /\ stack # <<>>
    /\ Top.fn = "map"
    /\ Top.pc = "loop"
    /\ Top.iter >= 0
    /\ Top.iter < Len(tokens)
    /\ IsOp(tokens[Top.iter + 1], ",")
    /\ current_token_index = Top.iter + 1

====
